---- MODULE Spec2Model ----
(***************************************************************************)
(* tokio-serde-json: the Json<T> adapter of src/src/lib.rs.                *)
(*                                                                         *)
(* Json<T> holds no data (ghost: PhantomData<T>).  Its two methods hand    *)
(* their argument to serde_json and return what serde_json returns:        *)
(*   deserialize(src) = serde_json::from_reader(src.into_buf().reader())   *)
(*   serialize(item)  = serde_json::to_vec(item).map(Into::into)           *)
(* The operators below give serde_json's compact writer and its            *)
(* type-directed streaming reader on a byte alphabet (Byte) and on a       *)
(* family of Rust types T (Types).  A byte is a one-character string, a    *)
(* buffer a sequence of bytes, a Rust value a tagged tuple.                *)
(***************************************************************************)
EXTENDS Integers, Sequences, FiniteSets, TLC

(***************************************************************************)
(* Bounds of the model.                                                    *)
(***************************************************************************)
\* longest Vec<bool> value
MaxSeqLen == 2
\* longest frame enumerated byte by byte over RawBytes
MaxRawLen == 2
\* most frames the transport delivers, and most values the application sends
MaxFrames == 2

(***************************************************************************)
(* Bytes.                                                                  *)
(***************************************************************************)
Ws == {" ", "\n", "\t", "\r"}

DigitChars == <<"0", "1", "2", "3", "4", "5", "6", "7", "8", "9">>

Digits == {DigitChars[d] : d \in 1..10}

DigitVal(c) == (CHOOSE d \in 1..10 : DigitChars[d] = c) - 1

\* what a read past the end of the buffer gives (no byte)
EOF == ""

\* the bytes frames are built from
Byte == Ws \cup {"{", "}", "[", "]", ":", ",", "\"", "."}
           \cup {"t", "r", "u", "e", "f", "a", "l", "s", "n", "x"}
           \cup {"0", "1", "5"}

(***************************************************************************)
(* Rust types T and their values.                                          *)
(*   <<"bool">>                 bool                                       *)
(*   <<"u8">>                   u8                                         *)
(*   <<"f64">>                  f64                                        *)
(*   <<"unit">>                 ()                                         *)
(*   <<"option", T>>            Option<T>                                  *)
(*   <<"seq", T>>               Vec<T>                                     *)
(*   <<"map", K, V>>            BTreeMap<K, V>                             *)
(*   <<"struct", names, types>> #[derive(Serialize, Deserialize)] struct   *)
(*   <<"value">>                serde_json::Value                          *)
(* A finite f64 is <<"f64", "fin", m, s>>, the number m * 10^(-s) with m   *)
(* not a multiple of 10 (or m = 0 and s = 0); s may be negative.           *)
(***************************************************************************)
TBool == <<"bool">>
TU8 == <<"u8">>
TF64 == <<"f64">>
TUnit == <<"unit">>
TOptF64 == <<"option", TF64>>
TVecBool == <<"seq", TBool>>
TMapUnit == <<"map", TUnit, TBool>>
TPerson == <<"struct", <<<<"a">>, <<"n">>>>, <<TBool, TU8>>>>
TValue == <<"value">>

Types == {TBool, TU8, TF64, TOptF64, TVecBool, TMapUnit, TPerson, TValue}

VBool(b) == <<"bool", b>>
VU8(n) == <<"u8", n>>
VFin(m, s) == <<"f64", "fin", m, s>>
VNaN == <<"f64", "nan">>
VInf == <<"f64", "inf">>
VNegInf == <<"f64", "-inf">>
VUnit == <<"unit">>
VNone == <<"none">>
VSome(v) == <<"some", v>>
VSeq(vs) == <<"seq", vs>>
VMap(es) == <<"map", es>>
VStruct(fs) == <<"struct", fs>>
\* serde_json::Value: Null, Bool (a VBool), Number (a u64 or a finite f64),
\* String, Array, Object (its entries <<key, value>> in the order of the keys)
VNull == <<"null">>
VU64(n) == <<"u64", n>>
VStr(bytes) == <<"str", bytes>>
VArr(vs) == <<"arr", vs>>
VObj(es) == <<"obj", es>>

IsNonFinite(v) == v \in {VNaN, VInf, VNegInf}

SeqsUpTo(S, n) == UNION {[1..k -> S] : k \in 0..n}

BoolValues == {VBool(TRUE), VBool(FALSE)}
U8Values == {VU8(0), VU8(1), VU8(10)}
F64Values == {VFin(0, 0), VFin(1, -1), VFin(15, 1), VFin(5, 2), VNaN, VInf, VNegInf}
ScalarValues == {VNull, VBool(TRUE), VU64(1), VFin(15, 1), VStr(<<"a">>)}
ElemValues == {VNull, VU64(1), VStr(<<"a">>)}
MemberValues == {VNull, VBool(TRUE), VU64(1)}
JsonValues ==
  ScalarValues
    \cup {VArr(vs) : vs \in SeqsUpTo(ElemValues, MaxSeqLen)}
    \cup {VObj(<<>>)}
    \cup {VObj(<<<<k, v>>>>) : k \in {<<"a">>, <<"n">>}, v \in MemberValues}
    \cup {VObj(<<<<<<"a">>, v>>, <<<<"n">>, w>>>>) : v \in MemberValues, w \in MemberValues}
    \cup {VObj(<<<<<<"x">>, VArr(<<VU64(1), VObj(<<>>)>>)>>>>)}

RECURSIVE Values(_)
Values(T) ==
  CASE T[1] = "bool" -> BoolValues
    [] T[1] = "u8" -> U8Values
    [] T[1] = "f64" -> F64Values
    [] T[1] = "unit" -> {VUnit}
    [] T[1] = "option" -> {VNone} \cup {VSome(v) : v \in Values(T[2])}
    [] T[1] = "seq" -> {VSeq(vs) : vs \in SeqsUpTo(Values(T[2]), MaxSeqLen)}
    [] T[1] = "map" ->
         \* BTreeMap<(), V>: the empty map, or the one key () with a value
         {VMap(<<>>)} \cup {VMap(<<<<k, v>>>>) : k \in Values(T[2]), v \in Values(T[3])}
    [] T[1] = "struct" ->
         {VStruct(<<a, n>>) : a \in Values(T[3][1]), n \in Values(T[3][2])}
    [] T[1] = "value" -> JsonValues

\* whether a value holds a NaN or an infinity somewhere
RECURSIVE HasNonFinite(_)
HasNonFinite(v) ==
  CASE v[1] = "f64" -> IsNonFinite(v)
    [] v[1] = "some" -> HasNonFinite(v[2])
    [] v[1] \in {"seq", "struct", "arr"} ->
         \E i \in 1..Len(v[2]) : HasNonFinite(v[2][i])
    [] v[1] = "obj" -> \E i \in 1..Len(v[2]) : HasNonFinite(v[2][i][2])
    [] v[1] = "map" ->
         \E i \in 1..Len(v[2]) : HasNonFinite(v[2][i][1]) \/ HasNonFinite(v[2][i][2])
    [] OTHER -> FALSE

\* PartialEq of the Rust values: structural, except that NaN equals nothing
RECURSIVE ValEq(_, _)
ValEq(v, w) ==
  CASE v[1] # w[1] -> FALSE
    [] v[1] = "f64" -> v = w /\ v # VNaN
    [] v[1] = "some" -> ValEq(v[2], w[2])
    [] v[1] \in {"seq", "struct", "arr"} ->
         /\ Len(v[2]) = Len(w[2])
         /\ \A i \in 1..Len(v[2]) : ValEq(v[2][i], w[2][i])
    [] v[1] = "obj" ->
         /\ Len(v[2]) = Len(w[2])
         /\ \A i \in 1..Len(v[2]) :
              v[2][i][1] = w[2][i][1] /\ ValEq(v[2][i][2], w[2][i][2])
    [] v[1] = "map" ->
         /\ Len(v[2]) = Len(w[2])
         /\ \A i \in 1..Len(v[2]) :
              ValEq(v[2][i][1], w[2][i][1]) /\ ValEq(v[2][i][2], w[2][i][2])
    [] OTHER -> v = w

(***************************************************************************)
(* Results.  serde_json::Error is one type for both directions; its code   *)
(* is kept as its class: "Syntax" (a malformed or truncated text),         *)
(* "Data" (a well-formed token that T does not accept) and                 *)
(* "KeyMustBeAString" (a map key the writer cannot turn into a string).    *)
(***************************************************************************)
Ok(v) == <<"Ok", v>>
Err(code) == <<"Err", code>>
IsOk(r) == r[1] = "Ok"
IsErr(r) == r[1] = "Err"

(***************************************************************************)
(* serde_json::to_vec: the compact writer.                                 *)
(* A step gives [ok, out]: whether it succeeded and the writer after it.   *)
(***************************************************************************)
W(out) == [ok |-> TRUE, out |-> out]
WErr(out) == [ok |-> FALSE, out |-> out]

RECURSIVE itoa(_)
itoa(n) ==
  IF n < 10 THEN <<DigitChars[n + 1]>>
  ELSE itoa(n \div 10) \o <<DigitChars[(n % 10) + 1]>>

RECURSIVE Pow10(_)
Pow10(k) == IF k = 0 THEN 1 ELSE 10 * Pow10(k - 1)

\* n in decimal, left-padded with zeros to k digits
RECURSIVE PadDigits(_, _)
PadDigits(n, k) ==
  IF k = 0 THEN <<>> ELSE PadDigits(n \div 10, k - 1) \o <<DigitChars[(n % 10) + 1]>>

\* a finite f64 in the shortest decimal form that reads back
write_f64(m, s) ==
  IF s <= 0 THEN itoa(m * Pow10(0 - s)) \o <<".", "0">>
  ELSE itoa(m \div Pow10(s)) \o <<".">> \o PadDigits(m % Pow10(s), s)

write_null == <<"n", "u", "l", "l">>
write_bool(b) == IF b THEN <<"t", "r", "u", "e">> ELSE <<"f", "a", "l", "s", "e">>
write_str(bytes) == <<"\"">> \o bytes \o <<"\"">>

\* Serializer::serialize_f64: a NaN or an infinity is written as null
serialize_f64(v, out) ==
  IF IsNonFinite(v) THEN W(out \o write_null) ELSE W(out \o write_f64(v[3], v[4]))

RECURSIVE ser(_, _)
RECURSIVE ser_seq(_, _, _)
RECURSIVE ser_map(_, _, _)
RECURSIVE ser_struct(_, _, _, _)
RECURSIVE ser_obj(_, _, _)

\* MapKeySerializer::serialize_unit: a key () is no string, the write fails
ser_key(k, out) ==
  CASE k[1] = "unit" -> WErr(out)

\* Serialize for T, into the writer out
ser(v, out) ==
  CASE v[1] = "bool" -> W(out \o write_bool(v[2]))
    [] v[1] = "u8" -> W(out \o itoa(v[2]))
    [] v[1] = "f64" -> serialize_f64(v, out)
    [] v[1] = "unit" -> W(out \o write_null)
    [] v[1] = "none" -> W(out \o write_null)
    [] v[1] = "some" -> ser(v[2], out)
    [] v[1] = "seq" -> ser_seq(v[2], 1, out \o <<"[">>)
    [] v[1] = "map" -> ser_map(v[2], 1, out \o <<"{">>)
    [] v[1] = "struct" -> ser_struct(TPerson[2], v[2], 1, out \o <<"{">>)
    [] v[1] = "null" -> W(out \o write_null)
    [] v[1] = "u64" -> W(out \o itoa(v[2]))
    [] v[1] = "str" -> W(out \o write_str(v[2]))
    [] v[1] = "arr" -> ser_seq(v[2], 1, out \o <<"[">>)
    [] v[1] = "obj" -> ser_obj(v[2], 1, out \o <<"{">>)

ser_seq(vs, i, out) ==
  IF i > Len(vs) THEN W(out \o <<"]">>)
  ELSE LET r == ser(vs[i], IF i = 1 THEN out ELSE out \o <<",">>)
       IN IF r.ok THEN ser_seq(vs, i + 1, r.out) ELSE r

ser_map(es, i, out) ==
  IF i > Len(es) THEN W(out \o <<"}">>)
  ELSE LET k == ser_key(es[i][1], IF i = 1 THEN out ELSE out \o <<",">>)
       IN IF ~k.ok THEN k
          ELSE LET r == ser(es[i][2], k.out \o <<":">>)
               IN IF r.ok THEN ser_map(es, i + 1, r.out) ELSE r

\* Value::Object: the keys are strings
ser_obj(es, i, out) ==
  IF i > Len(es) THEN W(out \o <<"}">>)
  ELSE LET o == (IF i = 1 THEN out ELSE out \o <<",">>) \o write_str(es[i][1]) \o <<":">>
           r == ser(es[i][2], o)
       IN IF r.ok THEN ser_obj(es, i + 1, r.out) ELSE r

ser_struct(names, fs, i, out) ==
  IF i > Len(fs) THEN W(out \o <<"}">>)
  ELSE LET o == (IF i = 1 THEN out ELSE out \o <<",">>) \o write_str(names[i]) \o <<":">>
           r == ser(fs[i], o)
       IN IF r.ok THEN ser_struct(names, fs, i + 1, r.out) ELSE r

\* serde_json::to_vec(item): a fresh Vec as the writer; the Vec on success,
\* the error alone on failure
to_vec(item) ==
  LET r == ser(item, <<>>)
  IN IF r.ok THEN Ok(r.out) ELSE Err("KeyMustBeAString")

(***************************************************************************)
(* serde_json::from_reader: the reader.  b is the buffer, i the index of   *)
(* the next unread byte.  A step gives [ok, val, pos] or [ok, code].       *)
(***************************************************************************)
POk(v, pos) == [ok |-> TRUE, val |-> v, pos |-> pos]
PErr(code) == [ok |-> FALSE, code |-> code]

peek(b, i) == IF i <= Len(b) THEN b[i] ELSE EOF

\* Deserializer::parse_whitespace: the index of the first byte that is no
\* whitespace, at or after i
RECURSIVE skip_ws(_, _)
skip_ws(b, i) == IF peek(b, i) \in Ws THEN skip_ws(b, i + 1) ELSE i

\* Deserializer::parse_ident: the bytes of rest, one by one
RECURSIVE parse_ident(_, _, _)
parse_ident(b, i, rest) ==
  IF rest = <<>> THEN POk(<<>>, i)
  ELSE IF peek(b, i) = Head(rest) THEN parse_ident(b, i + 1, Tail(rest))
  ELSE PErr("Syntax")

\* the digits from i on: [n, k, pos], their value, their count, the index after
RECURSIVE parse_digits(_, _, _, _)
parse_digits(b, i, n, k) ==
  IF peek(b, i) \in Digits THEN parse_digits(b, i + 1, 10 * n + DigitVal(b[i]), k + 1)
  ELSE [n |-> n, k |-> k, pos |-> i]

\* m * 10^(-s) with the trailing zeros of m moved into s
RECURSIVE normal_f64(_, _)
normal_f64(m, s) ==
  IF m = 0 THEN VFin(0, 0)
  ELSE IF m % 10 = 0 THEN normal_f64(m \div 10, s - 1)
  ELSE VFin(m, s)

\* Deserializer::parse_exponent, after the e: at least one digit
parse_exponent(b, i, m, s) ==
  LET d == parse_digits(b, i, 0, 0)
  IN IF d.k = 0 THEN PErr("Syntax") ELSE POk(normal_f64(m, s - d.n), d.pos)

\* Deserializer::parse_decimal, after the point: at least one digit
parse_decimal(b, i, n) ==
  LET d == parse_digits(b, i, n, 0)
  IN IF d.k = 0 THEN PErr("Syntax")
     ELSE IF peek(b, d.pos) = "e" THEN parse_exponent(b, d.pos + 1, d.n, d.k)
     ELSE POk(normal_f64(d.n, d.k), d.pos)

\* Deserializer::parse_integer at a digit: <<"u64", n>> for an integer,
\* an f64 for a number with a fraction or an exponent
parse_integer(b, i) ==
  LET d == IF b[i] = "0" THEN [n |-> 0, k |-> 1, pos |-> i + 1]
           ELSE parse_digits(b, i, 0, 0)
      c == peek(b, d.pos)
  IN IF b[i] = "0" /\ c \in Digits THEN PErr("Syntax")
     ELSE IF c = "." THEN parse_decimal(b, d.pos + 1, d.n)
     ELSE IF c = "e" THEN parse_exponent(b, d.pos + 1, d.n, 0)
     ELSE POk(<<"u64", d.n>>, d.pos)

\* SliceRead/IoRead::parse_str, after the opening quote: the bytes up to the
\* closing quote; a control character inside the string is an error
RECURSIVE parse_str(_, _, _)
parse_str(b, i, acc) ==
  LET c == peek(b, i)
  IN IF c = "\"" THEN POk(acc, i + 1)
     ELSE IF c = EOF \/ c \in {"\n", "\t", "\r"} THEN PErr("Syntax")
     ELSE parse_str(b, i + 1, acc \o <<c>>)

\* Deserializer::peek_invalid_type: the byte at i is not what T starts with.
\* A scalar token is read first: the error is its own when it is malformed.
peek_invalid_type(b, i) ==
  LET c == peek(b, i)
      r == CASE c = "n" -> parse_ident(b, i + 1, <<"u", "l", "l">>)
             [] c = "t" -> parse_ident(b, i + 1, <<"r", "u", "e">>)
             [] c = "f" -> parse_ident(b, i + 1, <<"a", "l", "s", "e">>)
             [] c \in Digits -> parse_integer(b, i)
             [] c = "\"" -> parse_str(b, i + 1, <<>>)
             [] c \in {"[", "{"} -> POk(<<>>, i)
             [] OTHER -> PErr("Syntax")
  IN IF r.ok THEN PErr("Data") ELSE r

\* SeqAccess::next_element_seed up to the element: "end" at the closing
\* bracket (not eaten), "elem" with the index where the element starts
seq_next(b, i, first) ==
  LET j == skip_ws(b, i)
      c == peek(b, j)
      j2 == skip_ws(b, j + 1)
  IN CASE c = EOF -> [k |-> "err"]
       [] c = "]" -> [k |-> "end", pos |-> j]
       [] c = "," /\ ~first ->
            IF peek(b, j2) \in {"]", EOF} THEN [k |-> "err"]
            ELSE [k |-> "elem", pos |-> j2]
       [] OTHER -> IF first THEN [k |-> "elem", pos |-> j] ELSE [k |-> "err"]

\* Deserializer::end_seq: the closing bracket, eaten
end_seq(b, i) ==
  LET j == skip_ws(b, i)
  IN IF peek(b, j) = "]" THEN POk(<<>>, j + 1) ELSE PErr("Syntax")

\* MapAccess::next_key_seed up to the key: "end" at the closing brace (not
\* eaten), "key" with the index of the key's opening quote
map_next(b, i, first) ==
  LET j == skip_ws(b, i)
      c == peek(b, j)
      j2 == skip_ws(b, j + 1)
  IN CASE c = EOF -> [k |-> "err"]
       [] c = "}" -> [k |-> "end", pos |-> j]
       [] c = "," /\ ~first ->
            IF peek(b, j2) = "\"" THEN [k |-> "key", pos |-> j2] ELSE [k |-> "err"]
       [] OTHER ->
            IF first /\ c = "\"" THEN [k |-> "key", pos |-> j] ELSE [k |-> "err"]

\* Deserializer::parse_object_colon: the index after the colon
parse_object_colon(b, i) ==
  LET j == skip_ws(b, i)
  IN IF peek(b, j) = ":" THEN POk(<<>>, j + 1) ELSE PErr("Syntax")

\* Deserializer::end_map: the closing brace, eaten
end_map(b, i) ==
  LET j == skip_ws(b, i)
  IN IF peek(b, j) = "}" THEN POk(<<>>, j + 1) ELSE PErr("Syntax")

(***************************************************************************)
(* Deserializer::ignore_value: any one JSON value is read and dropped (the *)
(* value of a field the struct does not have).  It accepts exactly the     *)
(* JSON grammar: ws value, a value being null, true, false, a number, a    *)
(* string, an array or an object.                                          *)
(***************************************************************************)
RECURSIVE ignore_value(_, _)
RECURSIVE ignore_seq(_, _, _)
RECURSIVE ignore_map(_, _, _)

ignore_value(b, i) ==
  LET j == skip_ws(b, i)
      c == peek(b, j)
  IN CASE c = "n" -> parse_ident(b, j + 1, <<"u", "l", "l">>)
       [] c = "t" -> parse_ident(b, j + 1, <<"r", "u", "e">>)
       [] c = "f" -> parse_ident(b, j + 1, <<"a", "l", "s", "e">>)
       [] c \in Digits -> parse_integer(b, j)
       [] c = "\"" -> parse_str(b, j + 1, <<>>)
       [] c = "[" -> ignore_seq(b, j + 1, TRUE)
       [] c = "{" -> ignore_map(b, j + 1, TRUE)
       [] OTHER -> PErr("Syntax")

ignore_seq(b, i, first) ==
  LET n == seq_next(b, i, first)
      r == ignore_value(b, n.pos)
  IN CASE n.k = "err" -> PErr("Syntax")
       [] n.k = "end" -> end_seq(b, n.pos)
       [] n.k = "elem" -> IF r.ok THEN ignore_seq(b, r.pos, FALSE) ELSE r

ignore_map(b, i, first) ==
  LET n == map_next(b, i, first)
      key == parse_str(b, n.pos + 1, <<>>)
      colon == parse_object_colon(b, key.pos)
      r == ignore_value(b, colon.pos)
  IN CASE n.k = "err" -> PErr("Syntax")
       [] n.k = "end" -> end_map(b, n.pos)
       [] n.k = "key" ->
            IF ~key.ok THEN key
            ELSE IF ~colon.ok THEN colon
            ELSE IF r.ok THEN ignore_map(b, r.pos, FALSE) ELSE r

(***************************************************************************)
(* Deserialize for T, driven by T as serde drives the reader.              *)
(***************************************************************************)
\* the visitor of u8 on a number: an integer up to 255
visit_u8(num) ==
  IF num[1] = "u64" /\ num[2] <= 255 THEN Ok(VU8(num[2])) ELSE Err("Data")

\* the visitor of f64 on a number: an integer is converted
visit_f64(num) ==
  IF num[1] = "u64" THEN Ok(normal_f64(num[2], 0)) ELSE Ok(num)

\* deserialize_u8, deserialize_f64: a number, handed to the visitor of T
de_number(T, b, i) ==
  LET j == skip_ws(b, i)
      c == peek(b, j)
      num == parse_integer(b, j)
      v == IF T[1] = "u8" THEN visit_u8(num.val) ELSE visit_f64(num.val)
  IN IF c = EOF THEN PErr("Syntax")
     ELSE IF c \notin Digits THEN peek_invalid_type(b, j)
     ELSE IF ~num.ok THEN num
     ELSE IF IsOk(v) THEN POk(v[2], num.pos) ELSE PErr(v[2])

\* deserialize_bool
de_bool(b, i) ==
  LET j == skip_ws(b, i)
      c == peek(b, j)
      t == parse_ident(b, j + 1, <<"r", "u", "e">>)
      f == parse_ident(b, j + 1, <<"a", "l", "s", "e">>)
  IN CASE c = EOF -> PErr("Syntax")
       [] c = "t" -> IF t.ok THEN POk(VBool(TRUE), t.pos) ELSE t
       [] c = "f" -> IF f.ok THEN POk(VBool(FALSE), f.pos) ELSE f
       [] OTHER -> peek_invalid_type(b, j)

\* deserialize_unit
de_unit(b, i) ==
  LET j == skip_ws(b, i)
      c == peek(b, j)
      n == parse_ident(b, j + 1, <<"u", "l", "l">>)
  IN CASE c = EOF -> PErr("Syntax")
       [] c = "n" -> IF n.ok THEN POk(VUnit, n.pos) ELSE n
       [] OTHER -> peek_invalid_type(b, j)

\* MapKey for K = (): the key's string is read, and a string is no ()
de_key(K, b, i) ==
  LET key == parse_str(b, i + 1, <<>>)
  IN IF ~key.ok THEN key
     ELSE CASE K[1] = "unit" -> PErr("Data")

\* the index of a field name among the struct's names, 0 when it has none
field_index(names, key) ==
  IF \E k \in 1..Len(names) : names[k] = key
  THEN CHOOSE k \in 1..Len(names) : names[k] = key
  ELSE 0

\* the bytes in their order as u8
ByteOrder ==
  <<"\t", "\n", "\r", " ", "\"", ",", ".", "0", "1", "2", "3", "4", "5", "6", "7",
    "8", "9", ":", "[", "]", "a", "e", "f", "l", "n", "r", "s", "t", "u", "x", "{", "}">>

ByteOrd(c) == CHOOSE k \in 1..Len(ByteOrder) : ByteOrder[k] = c

\* Ord of the keys of a BTreeMap<String, Value>
RECURSIVE KeyLess(_, _)
KeyLess(k1, k2) ==
  IF k2 = <<>> THEN FALSE
  ELSE IF k1 = <<>> THEN TRUE
  ELSE IF Head(k1) = Head(k2) THEN KeyLess(Tail(k1), Tail(k2))
  ELSE ByteOrd(Head(k1)) < ByteOrd(Head(k2))

\* BTreeMap::insert: the entries stay in the order of their keys, and a key
\* already there gets the new value
RECURSIVE obj_insert(_, _, _)
obj_insert(es, k, v) ==
  IF es = <<>> THEN <<<<k, v>>>>
  ELSE IF Head(es)[1] = k THEN <<<<k, v>>>> \o Tail(es)
  ELSE IF KeyLess(k, Head(es)[1]) THEN <<<<k, v>>>> \o es
  ELSE <<Head(es)>> \o obj_insert(Tail(es), k, v)

\* the visitor of Value on a number
visit_value_number(num) == IF num[1] = "u64" THEN VU64(num[2]) ELSE num

\* a record r with its value replaced by f(r.val), an error as it is
PMap(r, f(_)) == IF r.ok THEN POk(f(r.val), r.pos) ELSE r

ConstTrue(x) == VBool(TRUE)
ConstFalse(x) == VBool(FALSE)
ConstNull(x) == VNull

RECURSIVE de_any(_, _)
RECURSIVE de_any_seq(_, _, _, _)
RECURSIVE de_any_map(_, _, _, _)

\* Deserializer::deserialize_any with the visitor of Value
de_any(b, i) ==
  LET j == skip_ws(b, i)
      c == peek(b, j)
  IN CASE c = "n" -> PMap(parse_ident(b, j + 1, <<"u", "l", "l">>), ConstNull)
       [] c = "t" -> PMap(parse_ident(b, j + 1, <<"r", "u", "e">>), ConstTrue)
       [] c = "f" -> PMap(parse_ident(b, j + 1, <<"a", "l", "s", "e">>), ConstFalse)
       [] c \in Digits -> PMap(parse_integer(b, j), visit_value_number)
       [] c = "\"" -> PMap(parse_str(b, j + 1, <<>>), VStr)
       [] c = "[" -> de_any_seq(b, j + 1, TRUE, <<>>)
       [] c = "{" -> de_any_map(b, j + 1, TRUE, <<>>)
       [] OTHER -> PErr("Syntax")

de_any_seq(b, i, first, acc) ==
  LET n == seq_next(b, i, first)
      r == de_any(b, n.pos)
  IN CASE n.k = "err" -> PErr("Syntax")
       [] n.k = "end" -> PMap(end_seq(b, n.pos), LAMBDA x : VArr(acc))
       [] n.k = "elem" ->
            IF r.ok THEN de_any_seq(b, r.pos, FALSE, Append(acc, r.val)) ELSE r

de_any_map(b, i, first, acc) ==
  LET n == map_next(b, i, first)
      key == parse_str(b, n.pos + 1, <<>>)
      colon == parse_object_colon(b, key.pos)
      r == de_any(b, colon.pos)
  IN CASE n.k = "err" -> PErr("Syntax")
       [] n.k = "end" -> PMap(end_map(b, n.pos), LAMBDA x : VObj(acc))
       [] n.k = "key" ->
            IF ~key.ok THEN key
            ELSE IF ~colon.ok THEN colon
            ELSE IF r.ok THEN de_any_map(b, r.pos, FALSE, obj_insert(acc, key.val, r.val))
            ELSE r

RECURSIVE de(_, _, _)
RECURSIVE de_seq(_, _, _, _, _)
RECURSIVE de_map(_, _, _, _, _)
RECURSIVE de_struct_map(_, _, _, _, _)
RECURSIVE de_struct_seq(_, _, _, _, _)

\* deserialize_option: null is None, anything else is Some of a T
de_option(T, b, i) ==
  LET j == skip_ws(b, i)
      n == parse_ident(b, j + 1, <<"u", "l", "l">>)
      r == de(T[2], b, j)
  IN IF peek(b, j) = "n" THEN (IF n.ok THEN POk(VNone, n.pos) ELSE n)
     ELSE IF r.ok THEN POk(VSome(r.val), r.pos) ELSE r

de(T, b, i) ==
  LET j == skip_ws(b, i)
      c == peek(b, j)
  IN CASE T[1] = "bool" -> de_bool(b, i)
       [] T[1] \in {"u8", "f64"} -> de_number(T, b, i)
       [] T[1] = "unit" -> de_unit(b, i)
       [] T[1] = "option" -> de_option(T, b, i)
       [] T[1] = "value" -> de_any(b, i)
       [] T[1] = "seq" ->
            \* deserialize_seq
            IF c = EOF THEN PErr("Syntax")
            ELSE IF c = "[" THEN de_seq(T, b, j + 1, TRUE, <<>>)
            ELSE peek_invalid_type(b, j)
       [] T[1] = "map" ->
            \* deserialize_map
            IF c = EOF THEN PErr("Syntax")
            ELSE IF c = "{" THEN de_map(T, b, j + 1, TRUE, <<>>)
            ELSE peek_invalid_type(b, j)
       [] T[1] = "struct" ->
            \* deserialize_struct: an object, or an array of the fields in order
            IF c = EOF THEN PErr("Syntax")
            ELSE IF c = "{" THEN
              de_struct_map(T, b, j + 1, TRUE, [k \in 1..Len(T[2]) |-> VNone])
            ELSE IF c = "[" THEN de_struct_seq(T, b, j + 1, TRUE, <<>>)
            ELSE peek_invalid_type(b, j)

\* Vec<T>'s visit_seq, then end_seq
de_seq(T, b, i, first, acc) ==
  LET n == seq_next(b, i, first)
      r == de(T[2], b, n.pos)
      e == end_seq(b, n.pos)
  IN CASE n.k = "err" -> PErr("Syntax")
       [] n.k = "end" -> IF e.ok THEN POk(VSeq(acc), e.pos) ELSE e
       [] n.k = "elem" ->
            IF r.ok THEN de_seq(T, b, r.pos, FALSE, Append(acc, r.val)) ELSE r

\* BTreeMap<K, V>'s visit_map, then end_map
de_map(T, b, i, first, acc) ==
  LET n == map_next(b, i, first)
      key == de_key(T[2], b, n.pos)
      colon == parse_object_colon(b, key.pos)
      r == de(T[3], b, colon.pos)
      e == end_map(b, n.pos)
  IN CASE n.k = "err" -> PErr("Syntax")
       [] n.k = "end" -> IF e.ok THEN POk(VMap(acc), e.pos) ELSE e
       [] n.k = "key" ->
            IF ~key.ok THEN key
            ELSE IF ~colon.ok THEN colon
            ELSE IF r.ok THEN de_map(T, b, r.pos, FALSE, Append(acc, <<key.val, r.val>>))
            ELSE r

\* the derived visit_map of a struct, then end_map: a field may come in any
\* place, a field given twice is an error, a field the struct does not have
\* is ignored, and a field not given at all is an error
de_struct_map(T, b, i, first, got) ==
  LET n == map_next(b, i, first)
      key == parse_str(b, n.pos + 1, <<>>)
      f == field_index(T[2], key.val)
      colon == parse_object_colon(b, key.pos)
      r == IF f = 0 THEN ignore_value(b, colon.pos) ELSE de(T[3][f], b, colon.pos)
      e == end_map(b, n.pos)
  IN CASE n.k = "err" -> PErr("Syntax")
       [] n.k = "end" ->
            IF \E k \in 1..Len(got) : got[k] = VNone THEN PErr("Data")
            ELSE IF e.ok THEN POk(VStruct([k \in 1..Len(got) |-> got[k][2]]), e.pos)
            ELSE e
       [] n.k = "key" ->
            IF ~key.ok THEN key
            ELSE IF f # 0 /\ got[f] # VNone THEN PErr("Data")
            ELSE IF ~colon.ok THEN colon
            ELSE IF ~r.ok THEN r
            ELSE de_struct_map(T, b, r.pos, FALSE,
                               IF f = 0 THEN got ELSE [got EXCEPT ![f] = VSome(r.val)])

\* the derived visit_seq of a struct, then end_seq: the fields in order, and
\* nothing after the last
de_struct_seq(T, b, i, first, acc) ==
  LET n == seq_next(b, i, first)
      r == de(T[3][Len(acc) + 1], b, n.pos)
      e == end_seq(b, i)
  IN IF Len(acc) = Len(T[2]) THEN (IF e.ok THEN POk(VStruct(acc), e.pos) ELSE e)
     ELSE CASE n.k = "err" -> PErr("Syntax")
            [] n.k = "end" -> PErr("Data")
            [] n.k = "elem" ->
                 IF r.ok THEN de_struct_seq(T, b, r.pos, FALSE, Append(acc, r.val))
                 ELSE r

\* Deserializer::end: only whitespace may follow the value
end(b, i) == IF peek(b, skip_ws(b, i)) = EOF THEN POk(<<>>, i) ELSE PErr("Syntax")

\* <&BytesMut as IntoBuf>::into_buf: a cursor over the borrowed buffer, at 0
into_buf(src) == [inner |-> src, pos |-> 0]

\* Buf::reader: what is left to read of the cursor, as io::Read gives it
reader(buf) == SubSeq(buf.inner, buf.pos + 1, Len(buf.inner))

\* from_trait, after the value r was read from b: end(), then the value
from_trait_end(r, b) ==
  IF ~r.ok THEN Err(r.code)
  ELSE IF ~end(b, r.pos).ok THEN Err("Syntax")
  ELSE Ok(r.val)

\* serde_json::from_reader(rdr): one value of T, then end()
from_reader(T, rdr) == from_trait_end(de(T, rdr, 1), rdr)

\* Vec<u8> into Bytes: the same bytes in the other container
Bytes_from(vec) == vec

\* Result::map
Result_map(r, f(_)) == IF IsOk(r) THEN Ok(f(r[2])) ELSE r

(***************************************************************************)
(* Json<T>.  A method is given by everything a call can leave behind: the  *)
(* value it returns (ret), the adapter it was called on (self), the        *)
(* argument it borrowed (src, item) and the number of conversions it ran   *)
(* (calls).                                                                *)
(***************************************************************************)
\* Json<T> { ghost: PhantomData<T> }
Json(T) == [ghost |-> T]

\* Default::default() of T
RECURSIVE Default(_)
Default(T) ==
  CASE T[1] = "bool" -> VBool(FALSE)
    [] T[1] = "u8" -> VU8(0)
    [] T[1] = "f64" -> VFin(0, 0)
    [] T[1] = "unit" -> VUnit
    [] T[1] = "option" -> VNone
    [] T[1] = "seq" -> VSeq(<<>>)
    [] T[1] = "map" -> VMap(<<>>)
    [] T[1] = "struct" -> VStruct([k \in 1..Len(T[3]) |-> Default(T[3][k])])
    [] T[1] = "value" -> VNull

\* deserialize, were it to take the first value of the frame and stop there
Json_deserialize_stream(self, src) ==
  [ret |-> IF de(self.ghost, reader(into_buf(src)), 1).ok
           THEN Ok(de(self.ghost, reader(into_buf(src)), 1).val)
           ELSE Err(de(self.ghost, reader(into_buf(src)), 1).code),
   self |-> self,
   src |-> src,
   calls |-> 1]

\* deserialize, were it to put T's default in the place of a failure
Json_deserialize_or_default(self, src) ==
  [ret |-> IF IsOk(from_reader(self.ghost, reader(into_buf(src))))
           THEN from_reader(self.ghost, reader(into_buf(src)))
           ELSE Ok(Default(self.ghost)),
   self |-> self,
   src |-> src,
   calls |-> 1]

\* deserialize, were it to try a second time and report the failure as its own
Json_deserialize_retry(self, src) ==
  [ret |-> IF IsOk(from_reader(self.ghost, reader(into_buf(src))))
           THEN from_reader(self.ghost, reader(into_buf(src)))
           ELSE Err("Adapter"),
   self |-> self,
   src |-> src,
   calls |-> IF IsOk(from_reader(self.ghost, reader(into_buf(src)))) THEN 1 ELSE 2]

\* deserialize, were the adapter to remember a failure: once a frame has
\* failed, every later frame fails
Json_deserialize_sticky(self, src) ==
  [ret |-> IF self.ghost = <<"failed">> THEN Err("Syntax")
           ELSE from_reader(self.ghost, reader(into_buf(src))),
   self |-> IF self.ghost = <<"failed">>
               \/ IsErr(from_reader(self.ghost, reader(into_buf(src))))
            THEN Json(<<"failed">>)
            ELSE self,
   src |-> src,
   calls |-> 1]

\* deserialize, were the adapter to keep the first result and return it again
Json_deserialize_cached(self, src) ==
  [ret |-> IF "last" \in DOMAIN self THEN self.last
           ELSE from_reader(self.ghost, reader(into_buf(src))),
   self |-> IF "last" \in DOMAIN self THEN self
            ELSE [ghost |-> self.ghost,
                  last |-> from_reader(self.ghost, reader(into_buf(src)))],
   src |-> src,
   calls |-> 1]

\* deserialize, were it to take the bytes it read out of the buffer
Json_deserialize_consume(self, src) ==
  [ret |-> from_reader(self.ghost, reader(into_buf(src))),
   self |-> self,
   src |-> <<>>,
   calls |-> 1]

\* Json::deserialize(self: Pin<&mut Self>, src: &BytesMut)
Json_deserialize(self, src) ==
  [ret |-> from_reader(self.ghost, reader(into_buf(src))),
   self |-> self,
   src |-> src,
   calls |-> 1]

\* serialize, were it to end every payload with a separator
Json_serialize_delimited(self, item) ==
  [ret |-> Result_map(to_vec(item), LAMBDA vec : vec \o <<",">>),
   self |-> self,
   item |-> item,
   calls |-> 1]

\* serialize, were it to send an empty payload in the place of a failure
Json_serialize_or_empty(self, item) ==
  [ret |-> IF IsOk(to_vec(item)) THEN Ok(Bytes_from(to_vec(item)[2])) ELSE Ok(<<>>),
   self |-> self,
   item |-> item,
   calls |-> 1]

\* serialize, were the adapter to keep one output buffer and append to it
Json_serialize_appending(self, item) ==
  [ret |-> IF IsOk(to_vec(item))
           THEN Ok((IF "out" \in DOMAIN self THEN self.out ELSE <<>>)
                     \o Bytes_from(to_vec(item)[2]))
           ELSE to_vec(item),
   self |-> IF IsOk(to_vec(item))
            THEN [ghost |-> self.ghost,
                  out |-> (IF "out" \in DOMAIN self THEN self.out ELSE <<>>)
                            \o Bytes_from(to_vec(item)[2])]
            ELSE self,
   item |-> item,
   calls |-> 1]

\* Json::serialize(self: Pin<&mut Self>, item: &T)
Json_serialize(self, item) ==
  [ret |-> Result_map(to_vec(item), Bytes_from),
   self |-> self,
   item |-> item,
   calls |-> 1]

(***************************************************************************)
(* The frames given to deserialize.                                        *)
(***************************************************************************)
\* a smaller alphabet for the frames enumerated byte by byte
RawBytes == {" ", "\n", "\"", "[", "]", "{", "}", ":", ",", ".",
             "0", "1", "t", "n", "e", "x"}

\* what to_vec writes for the values of T
Encoded(T) == {to_vec(v)[2] : v \in {w \in Values(T) : IsOk(to_vec(w))}}

AllEncoded == UNION {Encoded(T) : T \in Types}

\* one byte, or a space and one byte, put after a written value
Tails == {<<c>> : c \in Byte} \cup {<<" ", c>> : c \in Byte}

Trailed == {p \o t : p \in AllEncoded, t \in Tails}

Led == {<<c>> \o p : c \in Ws, p \in AllEncoded}

\* every proper prefix of a written value
Truncated == UNION {{SubSeq(p, 1, k) : k \in 0..(Len(p) - 1)} : p \in AllEncoded}

RawFrames == SeqsUpTo(RawBytes, MaxRawLen)

\* objects and arrays for the struct: the fields in the other order, a field
\* too many, a field twice, a field missing, a field of the wrong type, a
\* number too large, the array form
Obj(fs) == <<"{">> \o fs \o <<"}">>
FieldA == <<"\"", "a", "\"", ":", "t", "r", "u", "e">>
FieldN == <<"\"", "n", "\"", ":", "1">>
FieldX == <<"\"", "x", "\"", ":", "[", "1", ",", "{", "}", "]">>
FieldABad == <<"\"", "a", "\"", ":", "1">>
FieldNBig == <<"\"", "n", "\"", ":", "5", "0", "0">>
Crafted ==
  {Obj(FieldN \o <<",">> \o FieldA),
   Obj(FieldN \o <<",", " ">> \o FieldX \o <<",">> \o FieldA),
   Obj(FieldA \o <<",">> \o FieldN \o <<",">> \o FieldA),
   Obj(FieldA), Obj(FieldN), Obj(FieldX),
   Obj(FieldABad \o <<",">> \o FieldN),
   Obj(FieldA \o <<",">> \o FieldNBig),
   Obj(FieldA \o <<",">> \o FieldN \o <<",">>),
   <<"[", "t", "r", "u", "e", ",", "1", "]">>,
   <<"[", "t", "r", "u", "e", "]">>,
   <<"[", "t", "r", "u", "e", ",", "1", ",", "1", "]">>,
   <<"5", "0", "0">>, <<"1", "e", "1">>, <<"\"", "a", "\"">>}

Frames == AllEncoded \cup Trailed \cup Led \cup Truncated \cup RawFrames \cup Crafted

(***************************************************************************)
(* The calls on one adapter.                                               *)
(***************************************************************************)
NoItem == <<"no item">>
NoBuf == <<"no buffer">>
NoRet == <<"no result">>

VARIABLES
  tp,      \* the type parameter T of the adapter
  self,    \* the adapter
  op,      \* the last call: "new", "serialize", "deserialize", "echo"
  given,   \* the argument of the last call, as the caller passed it
  item,    \* the value lent to serialize, after the call
  src,     \* the buffer lent to deserialize, after the call
  ret,     \* what the last call returned
  calls,   \* the conversions the last call ran
  prev,    \* how the call before the last ended: "none", "Ok", "Err"
  frames,  \* the frames the transport has yielded, in order
  items,   \* the items the wrapped stream has yielded, in order
  sent,    \* the values the application has sent to the wrapped sink, in order
  acks,    \* what each send returned, in order
  written, \* the frames the transport has been given, in order
  mode,    \* "own": every task has an adapter; "shared": the tasks take turns on one
  holder,  \* the task that holds the shared adapter, 0 when it is free
  task     \* per task: where its call is, its argument, its reader, its result

callVars == <<op, given, item, src, ret, calls, prev>>
pipeVars == <<frames, items, sent, acks, written>>
taskVars == <<mode, holder, task>>
vars == <<tp, self, callVars, pipeVars, taskVars>>

Tasks == {1, 2}

\* a task before its first call
Idle == [pc |-> "idle", adapter |-> Json(tp), kind |-> "none", arg |-> NoItem,
         res |-> NoRet, n |-> 0]

InitAdapter ==
  /\ tp \in Types
  /\ self = Json(tp)
  /\ op = "new"
  /\ given = NoItem
  /\ item = NoItem
  /\ src = NoBuf
  /\ ret = NoRet
  /\ calls = 0
  /\ prev = "none"
  /\ frames = <<>>
  /\ items = <<>>
  /\ sent = <<>>
  /\ acks = <<>>
  /\ written = <<>>
  /\ holder = 0
  /\ task = [t \in Tasks |-> Idle]

Init == InitAdapter /\ mode = "own"

\* the call c, made with the argument arg, is over: what it left behind
Returned(name, arg, c) ==
  /\ op' = name
  /\ given' = arg
  /\ ret' = c.ret
  /\ self' = c.self
  /\ calls' = c.calls
  /\ prev' = IF op = "new" THEN "none" ELSE ret[1]
  /\ UNCHANGED <<tp, pipeVars, taskVars>>

\* the application serializes a value of T
Serialize(v) ==
  /\ Returned("serialize", v, Json_serialize(self, v))
  /\ item' = Json_serialize(self, v).item
  /\ src' = NoBuf

\* the transport hands a frame to deserialize
Deserialize(b) ==
  /\ Returned("deserialize", b, Json_deserialize(self, b))
  /\ src' = Json_deserialize(self, b).src
  /\ item' = NoItem

\* the payload serialize just returned comes back as a frame
Echo ==
  /\ op = "serialize"
  /\ IsOk(ret)
  /\ Returned("echo", ret[2], Json_deserialize(self, ret[2]))
  /\ src' = Json_deserialize(self, ret[2]).src
  /\ UNCHANGED item

\* the frames of the call sequences: the written values, the crafted
\* frames, the empty frame, a value with a space or a stray byte after it
SomeFrames ==
  AllEncoded \cup Crafted
    \cup {<<>>, <<"t", "r", "u", "e", " ">>, <<"t", "r", "u", "e", "x">>, <<"t", "r", "u">>}

\* any calls, in any order, on the one adapter
Next ==
  \/ \E v \in Values(tp) : Serialize(v)
  \/ \E b \in SomeFrames : Deserialize(b)
  \/ Echo

Spec == Init /\ [][Next]_vars

(***************************************************************************)
(* One conversion per behaviour, its input drawn from all of Frames and    *)
(* Values: the conversions as functions of their input.                    *)
(***************************************************************************)
FirstSerialize(v) == op = "new" /\ Serialize(v)

FirstDeserialize(b) == op = "new" /\ Deserialize(b)

NextOne ==
  \/ \E v \in Values(tp) : FirstSerialize(v)
  \/ \E b \in Frames : FirstDeserialize(b)
  \/ Echo

SpecOne == Init /\ [][NextOne]_vars

(***************************************************************************)
(* The adapter around a frame transport: a stream of values over the       *)
(* frames the transport yields, a sink of values over the frames it takes. *)
(***************************************************************************)
\* two values of T for the sink and the tasks: one more than the other, or
\* one that does not serialize
FewValues(T) ==
  CASE T[1] = "bool" -> {VBool(TRUE), VBool(FALSE)}
    [] T[1] = "u8" -> {VU8(1), VU8(10)}
    [] T[1] = "f64" -> {VFin(15, 1), VNaN}
    [] T[1] = "option" -> {VNone, VSome(VFin(15, 1))}
    [] T[1] = "seq" -> {VSeq(<<>>), VSeq(<<VBool(TRUE)>>)}
    [] T[1] = "map" -> {VMap(<<>>), VMap(<<<<VUnit, VBool(TRUE)>>>>)}
    [] T[1] = "struct" -> {VStruct(<<VBool(TRUE), VU8(1)>>), VStruct(<<VBool(FALSE), VU8(10)>>)}
    [] T[1] = "value" -> {VNull, VObj(<<<<<<"a">>, VU64(1)>>>>)}

\* frames for the stream and the tasks: what to_vec writes for those
\* values, a frame that is no JSON, a frame with a byte too many
FewFrames(T) ==
  {to_vec(v)[2] : v \in {w \in FewValues(T) : IsOk(to_vec(w))}}
    \cup {<<"t", "r", "u">>, <<"1", "x">>}

\* Stream::poll_next of the wrapped stream when the transport yields the
\* frame b: the item is what deserialize returns for b
StreamNext(b) ==
  /\ Len(frames) < MaxFrames
  /\ frames' = Append(frames, Json_deserialize(self, b).src)
  /\ items' = Append(items, Json_deserialize(self, b).ret)
  /\ self' = Json_deserialize(self, b).self
  /\ UNCHANGED <<tp, callVars, sent, acks, written, taskVars>>

\* the frames written once the call c of serialize is over
SinkWritten(c) == IF IsOk(c.ret) THEN Append(written, c.ret[2]) ELSE written

\* what send returns once the call c of serialize is over
SinkAck(c) == IF IsOk(c.ret) THEN Ok(<<>>) ELSE c.ret

\* Sink::start_send of the wrapped sink with the value v: the payload of
\* serialize goes to the transport as one frame; a failure is returned and
\* nothing goes to the transport
SinkSend(v) ==
  /\ Len(sent) < MaxFrames
  /\ sent' = Append(sent, Json_serialize(self, v).item)
  /\ written' = SinkWritten(Json_serialize(self, v))
  /\ acks' = Append(acks, SinkAck(Json_serialize(self, v)))
  /\ self' = Json_serialize(self, v).self
  /\ UNCHANGED <<tp, callVars, frames, items, taskVars>>

NextPipe ==
  \/ \E b \in FewFrames(tp) : StreamNext(b)
  \/ \E v \in FewValues(tp) : SinkSend(v)

SpecPipe == Init /\ [][NextPipe]_vars

(***************************************************************************)
(* Two tasks that convert at the same time.  With mode "own" each task has *)
(* an adapter of its own and the calls overlap; with mode "shared" they    *)
(* use one adapter, which a call borrows as Pin<&mut Self> from its start  *)
(* to its return, so the calls on it take turns.                           *)
(***************************************************************************)
InitTasks == InitAdapter /\ mode \in {"own", "shared"}

\* the adapter the task t calls
AdapterOf(t) == IF mode = "shared" THEN self ELSE task[t].adapter

\* the conversion the task t has started
CallOf(t) ==
  IF task[t].kind = "serialize" THEN Json_serialize(AdapterOf(t), task[t].arg)
  ELSE Json_deserialize(AdapterOf(t), task[t].arg)

\* the task t starts a call and borrows its adapter
Begin(t, kind, arg) ==
  /\ task[t].pc \in {"idle", "returned"}
  /\ task[t].n < MaxFrames
  /\ mode = "shared" => holder = 0
  /\ holder' = IF mode = "shared" THEN t ELSE holder
  /\ task' = [task EXCEPT ![t] = [@ EXCEPT !.pc = "called", !.kind = kind,
                                           !.arg = arg, !.res = NoRet]]
  /\ UNCHANGED <<tp, self, mode, callVars, pipeVars>>

\* the body of the call of the task t runs
Run(t) ==
  /\ task[t].pc = "called"
  /\ task' = [task EXCEPT ![t] = [@ EXCEPT !.pc = "ran", !.res = CallOf(t).ret,
                                           !.adapter = IF mode = "shared" THEN @
                                                       ELSE CallOf(t).self]]
  /\ self' = IF mode = "shared" THEN CallOf(t).self ELSE self
  /\ UNCHANGED <<tp, mode, holder, callVars, pipeVars>>

\* the call of the task t returns and the borrow ends
Return(t) ==
  /\ task[t].pc = "ran"
  /\ task' = [task EXCEPT ![t] = [@ EXCEPT !.pc = "returned", !.n = @ + 1]]
  /\ holder' = IF mode = "shared" THEN 0 ELSE holder
  /\ UNCHANGED <<tp, self, mode, callVars, pipeVars>>

NextTasks ==
  \/ \E t \in Tasks : \E v \in FewValues(tp) : Begin(t, "serialize", v)
  \/ \E t \in Tasks : \E b \in FewFrames(tp) : Begin(t, "deserialize", b)
  \/ \E t \in Tasks : Run(t)
  \/ \E t \in Tasks : Return(t)

SpecTasks == InitTasks /\ [][NextTasks]_vars

(***************************************************************************)
(* Properties.                                                             *)
(***************************************************************************)
\* the bytes of given up to k, and those after k
Lead(k) == SubSeq(given, 1, k)
Rest(k) == SubSeq(given, k + 1, Len(given))

AllWs(bytes) == \A i \in 1..Len(bytes) : bytes[i] \in Ws

\* the byte after k goes on with the number that ends at k
NumberContinues(k) == given[k] \in Digits /\ given[k + 1] \in Digits \cup {".", "e"}

\* a frame is a JSON text: ws value ws
WellFormed(b) == ignore_value(b, 1).ok /\ end(b, ignore_value(b, 1).pos).ok

\* the JSON value a well-formed frame holds
Tree(b) == from_reader(TValue, b)[2]

\* v is a value of the Rust type T
RECURSIVE IsValueOf(_, _)
IsValueOf(T, v) ==
  CASE T[1] = "bool" -> v[1] = "bool"
    [] T[1] = "u8" -> v[1] = "u8" /\ v[2] \in 0..255
    [] T[1] = "f64" -> v[1] = "f64"
    [] T[1] = "unit" -> v = VUnit
    [] T[1] = "option" -> v = VNone \/ (v[1] = "some" /\ IsValueOf(T[2], v[2]))
    [] T[1] = "seq" -> v[1] = "seq" /\ \A i \in 1..Len(v[2]) : IsValueOf(T[2], v[2][i])
    [] T[1] = "map" ->
         /\ v[1] = "map"
         /\ \A i \in 1..Len(v[2]) :
              IsValueOf(T[2], v[2][i][1]) /\ IsValueOf(T[3], v[2][i][2])
    [] T[1] = "struct" ->
         /\ v[1] = "struct"
         /\ Len(v[2]) = Len(T[3])
         /\ \A i \in 1..Len(v[2]) : IsValueOf(T[3][i], v[2][i])
    [] T[1] = "value" -> v[1] \in {"null", "bool", "u64", "f64", "str", "arr", "obj"}

\* the JSON value t has the shape T asks for: the kind of value, every
\* field of a struct present with a value of the field's shape
RECURSIVE Matches(_, _)
Matches(T, t) ==
  CASE T[1] = "bool" -> t[1] = "bool"
    [] T[1] = "u8" -> t[1] = "u64" /\ t[2] <= 255
    [] T[1] = "f64" -> t[1] \in {"u64", "f64"}
    [] T[1] = "unit" -> t = VNull
    [] T[1] = "option" -> t = VNull \/ Matches(T[2], t)
    [] T[1] = "seq" -> t[1] = "arr" /\ \A i \in 1..Len(t[2]) : Matches(T[2], t[2][i])
    [] T[1] = "map" -> t[1] = "obj" /\ t[2] = <<>>
    [] T[1] = "struct" ->
         \/ /\ t[1] = "obj"
            /\ \A f \in 1..Len(T[2]) :
                 \E i \in 1..Len(t[2]) : t[2][i][1] = T[2][f] /\ Matches(T[3][f], t[2][i][2])
         \/ /\ t[1] = "arr"
            /\ Len(t[2]) = Len(T[2])
            /\ \A f \in 1..Len(T[2]) : Matches(T[3][f], t[2][f])
    [] T[1] = "value" -> TRUE

\* v holds a map with a key that is no string
RECURSIVE HasBadKey(_)
HasBadKey(v) ==
  CASE v[1] = "map" ->
         \E i \in 1..Len(v[2]) : v[2][i][1][1] = "unit" \/ HasBadKey(v[2][i][2])
    [] v[1] = "some" -> HasBadKey(v[2])
    [] v[1] \in {"seq", "struct", "arr"} -> \E i \in 1..Len(v[2]) : HasBadKey(v[2][i])
    [] v[1] = "obj" -> \E i \in 1..Len(v[2]) : HasBadKey(v[2][i][2])
    [] OTHER -> FALSE

C2_TrailingData_AsClaimed ==
  op = "deserialize" =>
    \A k \in 1..(Len(given) - 1) : IsOk(from_reader(tp, Lead(k))) => IsErr(ret)

\* C2, amended: a frame that is one complete value followed by one or more
\* extra bytes fails when one of the extra bytes is no whitespace, unless
\* the first extra byte goes on with a number the value ends with (the
\* frame is then read as a whole); when the extra bytes are all whitespace
\* the value is returned.  A value is never returned with a byte that is
\* no whitespace left unread after it.
C2_TrailingData ==
  op = "deserialize" =>
    \A k \in 1..(Len(given) - 1) :
      IsOk(from_reader(tp, Lead(k))) =>
        IF AllWs(Rest(k)) THEN ret = from_reader(tp, Lead(k))
        ELSE NumberContinues(k) \/ IsErr(ret)

C2_Witness ==
  /\ op = "deserialize"
  /\ tp = TPerson
  /\ \E k \in 1..(Len(given) - 1) :
       IsOk(from_reader(tp, Lead(k))) /\ Rest(k) = <<" ", "x">>
  /\ ret = Err("Syntax")

C4_MalformedInput ==
  op = "deserialize" =>
    /\ ~WellFormed(given) => IsErr(ret)
    /\ IsOk(ret) => IsValueOf(tp, ret[2])
    /\ IsErr(ret) => ret \in {Err("Syntax"), Err("Data")}

C4_Witness ==
  /\ op = "deserialize"
  /\ given \in Truncated
  /\ Len(given) > 1
  /\ ~WellFormed(given)
  /\ IsErr(ret)

\* C5: a frame that is well-formed JSON but has not the shape of T (a field
\* of the struct missing, a value of the wrong kind) makes deserialize fail.
C5_StructuralMismatch ==
  op = "deserialize" =>
    ((WellFormed(given) /\ ~Matches(tp, Tree(given))) => IsErr(ret))

C5_Witness ==
  /\ op = "deserialize"
  /\ tp = TPerson
  /\ given = Obj(FieldA)
  /\ ret = Err("Data")

\* C7: a call runs one conversion; the error of a failed conversion is
\* what the call returns, as it is; and a call that follows a failed call
\* returns what it returns on a new adapter.
C7_ErrorsSurface ==
  /\ op \in {"deserialize", "echo"} =>
       /\ calls = 1
       /\ IsErr(from_reader(tp, given)) => ret = from_reader(tp, given)
  /\ op = "serialize" =>
       /\ calls = 1
       /\ IsErr(to_vec(given)) => ret = to_vec(given)
  /\ (prev = "Err" /\ op = "deserialize") => ret = from_reader(tp, given)
  /\ (prev = "Err" /\ op = "serialize") => ret = to_vec(given)

C7_Witness ==
  /\ prev = "Err"
  /\ op = "deserialize"
  /\ ret = Err("Data")

\* C8: after any calls, the adapter is as it was made, and the last call
\* returned what the same call returns on a newly made adapter.
C8_Stateless ==
  op # "new" =>
    /\ self = Json(tp)
    /\ op = "serialize" => ret = Json_serialize(Json(tp), given).ret
    /\ op \in {"deserialize", "echo"} => ret = Json_deserialize(Json(tp), given).ret

C8_Witness == prev = "Err" /\ op = "deserialize" /\ IsOk(ret)

\* C10: deserialize leaves the frame buffer as it was given, whether it
\* succeeds or fails, and serialize leaves the value as it was given.
C10_FrameEffect ==
  /\ op \in {"deserialize", "echo"} => src = given
  /\ op = "serialize" => item = given

C10_Witness ==
  /\ op = "deserialize"
  /\ IsErr(ret)
  /\ Len(given) > 0
  /\ src = given

\* the payloads of the values of vs that serialize, in order
RECURSIVE PayloadsOf(_)
PayloadsOf(vs) ==
  IF vs = <<>> THEN <<>>
  ELSE IF IsOk(Json_serialize(Json(tp), Head(vs)).ret)
       THEN <<Json_serialize(Json(tp), Head(vs)).ret[2]>> \o PayloadsOf(Tail(vs))
       ELSE PayloadsOf(Tail(vs))

\* C6: the wrapped stream has yielded one item per frame, in the order of
\* the frames, each what deserialize returns for its frame (the value, or
\* the failure); the transport has been given one frame per value that
\* serialized, in the order of the values, each the payload of serialize;
\* a value that did not serialize got its failure back and no frame.
C6_StreamSink ==
  /\ Len(items) = Len(frames)
  /\ \A i \in 1..Len(frames) : items[i] = Json_deserialize(Json(tp), frames[i]).ret
  /\ Len(acks) = Len(sent)
  /\ \A i \in 1..Len(sent) :
       acks[i] = IF IsOk(Json_serialize(Json(tp), sent[i]).ret) THEN Ok(<<>>)
                 ELSE Json_serialize(Json(tp), sent[i]).ret
  /\ written = PayloadsOf(sent)

C6_Witness ==
  /\ Len(frames) = 2
  /\ IsErr(items[1])
  /\ IsOk(items[2])
  /\ Len(sent) = 2
  /\ IsErr(acks[1])
  /\ Len(written) = 1

\* what the conversion of the task t returns when it runs alone, on an
\* adapter nothing else has used
Alone(t) ==
  IF task[t].kind = "serialize" THEN Json_serialize(Json(tp), task[t].arg).ret
  ELSE Json_deserialize(Json(tp), task[t].arg).ret

\* C9: whether the tasks convert at the same time on adapters of their own
\* or take turns on one adapter, every conversion returns what it returns
\* when it runs alone; and on the one adapter no two calls overlap.
C9_Interleaving ==
  /\ \A t \in Tasks : task[t].pc \in {"ran", "returned"} => task[t].res = Alone(t)
  /\ mode = "shared" =>
       /\ Cardinality({t \in Tasks : task[t].pc \in {"called", "ran"}}) <= 1
       /\ \A t \in Tasks : task[t].pc \in {"called", "ran"} => holder = t

\* the two tasks on one adapter: the first has converted twice, a failure
\* last, and the second has just got a value from the adapter it took over
C9_Witness ==
  /\ mode = "shared"
  /\ task[1].n = 2
  /\ IsErr(task[1].res)
  /\ task[2].pc = "ran"
  /\ task[2].n = 1
  /\ IsOk(task[2].res)
  /\ task[2].kind = "deserialize"
====
